---- MODULE Spec2Model ----
(***************************************************************************)
(* Agent Talk Python SDK: error taxonomy, error mapper, transport and      *)
(* facade (sdk/python/agent_talk/errors.py, client.py, types.py), and the  *)
(* task orchestrator (orchestrator.py).                                    *)
(*                                                                         *)
(* Four specifications share the variables; each one holds the variables   *)
(* of the others fixed.  Spec: one facade call against a stub server.      *)
(* SpecConfig: construction of a client with a timeout.  SpecConc: calls   *)
(* of two threads on one client, interleaved.  SpecOrch: runs of the       *)
(* orchestrator and agents finishing their tasks.                          *)
(*                                                                         *)
(* Data conventions.  A Python str is a TLA+ string token.  A JSON object  *)
(* (dict) is a function from the keys that are present to their values.   *)
(* A message built by an f-string is the sequence of its pieces.  Python's *)
(* None is None in a scalar slot and NoneObj in an object slot.            *)
(***************************************************************************)
EXTENDS Integers, Sequences, FiniteSets, TLC

\* one facade call against a stub server
VARIABLES api_key, server, call, requests, outcome
\* construction of a client: the timeout argument and HttpClient.timeout
VARIABLES timeout_arg, client_timeout

\* concurrent calls on one client: the client object, each call's position and
\* local variables, and what the caller invoked, the server sent and the call gave
VARIABLES client, pc, locals, invoked, served, result, overlapped

\* the orchestrator: the folder each task file is in, the agents that run, and the
\* saved state file
VARIABLES folder, agents, state

sdk_vars == <<api_key, server, call, requests, outcome>>
config_vars == <<timeout_arg, client_timeout>>
conc_vars == <<client, pc, locals, invoked, served, result, overlapped>>
orch_vars == <<folder, agents, state>>

vars == <<sdk_vars, config_vars, conc_vars, orch_vars>>

\* ------------------------------------------------------------------ bounds
MaxDetailKeys == 2
MaxVoices == 2
MaxTimeoutMs == 2500
NumIndependent == 6

\* ------------------------------------------------------------ Python values
None == "None"
NoneObj == [none |-> TRUE]
EmptyDict == [k \in {} |-> None]

Get(d, key, default) == IF key \in DOMAIN d THEN d[key] ELSE default

Truthy(d) == DOMAIN d # {}

\* truth value of an Optional[str]
TruthyStr(x) == x \notin {None, ""}

\* ------------------------------------------------------------- types.py
ErrorDetailsFields ==
    {"field", "reason", "provided_type", "requested_voice", "available_voices",
     "limit", "used", "reset_at", "required_tier", "current_tier", "operation",
     "memo_id"}

\* ErrorDetails(**kwargs); the caller has checked that every keyword is a field
ErrorDetails(kwargs) == [f \in ErrorDetailsFields |-> Get(kwargs, f, None)]

AcceptsKeywords(kwargs) == DOMAIN kwargs \subseteq ErrorDetailsFields

Voice(v) == [id |-> v["id"], name |-> v["name"], gender |-> v["gender"],
             description |-> v["description"]]

\* mutant: the voice snapshot takes its name from the id
MemoVoice_NameFromId(v) ==
    [id |-> v["id"], name |-> v["id"], gender |-> v["gender"],
     description |-> v["description"]]

MemoVoice(v) == [id |-> v["id"], name |-> v["name"], gender |-> v["gender"],
                 description |-> v["description"]]

MemoAudio(a) == [url |-> a["url"], duration |-> a["duration"], format |-> a["format"]]

\* ------------------------------------------------------------- errors.py
AgentTalkError(code, message, status_code, details) ==
    [exc |-> "AgentTalkError", code |-> code, message |-> message,
     status_code |-> status_code, details |-> details]

Named(name, e) == [e EXCEPT !.exc = name]

ValidationError(message, details) ==
    Named("ValidationError", AgentTalkError("VALIDATION_ERROR", <<message>>, 400, details))

InvalidInputError(field, reason, provided_type) ==
    Named("InvalidInputError",
          AgentTalkError("INVALID_INPUT", <<"Invalid ", field, ": ", reason>>, 400,
                         ErrorDetails([field |-> field, reason |-> reason,
                                       provided_type |-> provided_type])))

MissingFieldError(field) ==
    Named("MissingFieldError",
          AgentTalkError("MISSING_FIELD", <<"Missing required field: ", field>>, 400,
                         ErrorDetails([field |-> field])))

InvalidVoiceError(requested_voice, available_voices) ==
    Named("InvalidVoiceError",
          AgentTalkError("INVALID_VOICE", <<"Invalid voice: \"", requested_voice, "\"">>, 400,
                         ErrorDetails([field |-> "voice",
                                       requested_voice |-> requested_voice,
                                       available_voices |-> available_voices])))

UnauthorizedError(message) ==
    Named("UnauthorizedError", AgentTalkError("UNAUTHORIZED", <<message>>, 401, NoneObj))

MissingApiKeyError ==
    Named("MissingApiKeyError",
          AgentTalkError("MISSING_API_KEY", <<"API key is required">>, 401, NoneObj))

InvalidApiKeyError ==
    Named("InvalidApiKeyError",
          AgentTalkError("INVALID_API_KEY", <<"Invalid API key">>, 401, NoneObj))

ExpiredTokenError ==
    Named("ExpiredTokenError",
          AgentTalkError("EXPIRED_TOKEN", <<"Token has expired">>, 401, NoneObj))

ForbiddenError(message) ==
    Named("ForbiddenError", AgentTalkError("FORBIDDEN", <<message>>, 403, NoneObj))

InsufficientTierError(required_tier, current_tier) ==
    Named("InsufficientTierError",
          AgentTalkError("INSUFFICIENT_TIER",
                         <<"This feature requires ", required_tier, " tier">>, 403,
                         ErrorDetails([required_tier |-> required_tier,
                                       current_tier |-> current_tier])))

RevokedKeyError ==
    Named("RevokedKeyError",
          AgentTalkError("REVOKED_KEY", <<"API key has been revoked">>, 403, NoneObj))

NotFoundError(resource) ==
    Named("NotFoundError", AgentTalkError("NOT_FOUND", <<resource, " not found">>, 404, NoneObj))

MemoNotFoundError(memo_id) ==
    Named("MemoNotFoundError",
          AgentTalkError("MEMO_NOT_FOUND", <<"Memo not found">>, 404,
                         ErrorDetails([memo_id |-> memo_id])))

RateLimitError(message) ==
    Named("RateLimitError", AgentTalkError("RATE_LIMIT_EXCEEDED", <<message>>, 429, NoneObj))

DailyLimitExceededError(limit, used, reset_at) ==
    Named("DailyLimitExceededError",
          AgentTalkError("DAILY_LIMIT_EXCEEDED", <<"Daily rate limit exceeded">>, 429,
                         ErrorDetails([limit |-> limit, used |-> used, reset_at |-> reset_at])))

MonthlyLimitExceededError(limit, used, reset_at) ==
    Named("MonthlyLimitExceededError",
          AgentTalkError("MONTHLY_LIMIT_EXCEEDED", <<"Monthly rate limit exceeded">>, 429,
                         ErrorDetails([limit |-> limit, used |-> used, reset_at |-> reset_at])))

InternalError(message) ==
    Named("InternalError", AgentTalkError("INTERNAL_ERROR", <<message>>, 500, NoneObj))

TTSServiceError(message) ==
    Named("TTSServiceError", AgentTalkError("TTS_SERVICE_ERROR", <<message>>, 500, NoneObj))

StorageError(operation) ==
    Named("StorageError",
          AgentTalkError("STORAGE_ERROR", <<"Storage operation failed">>, 500,
                         ErrorDetails([operation |-> operation])))

NotImplementedError(feature) ==
    Named("NotImplementedError",
          AgentTalkError("NOT_IMPLEMENTED", <<feature, " is not implemented">>, 501, NoneObj))

\* mutant: the class declares the status of InternalError
ServiceUnavailableError_Status500(message) ==
    Named("ServiceUnavailableError",
          AgentTalkError("SERVICE_UNAVAILABLE", <<message>>, 500, NoneObj))

ServiceUnavailableError(message) ==
    Named("ServiceUnavailableError",
          AgentTalkError("SERVICE_UNAVAILABLE", <<message>>, 503, NoneObj))

\* a raised exception that is not an AgentTalkError
Raw(name) == [exc |-> name]

\* the keys of error_map
error_map_keys ==
    {"VALIDATION_ERROR", "INVALID_INPUT", "MISSING_FIELD", "INVALID_VOICE",
     "UNAUTHORIZED", "MISSING_API_KEY", "INVALID_API_KEY", "EXPIRED_TOKEN",
     "FORBIDDEN", "INSUFFICIENT_TIER", "REVOKED_KEY", "NOT_FOUND", "MEMO_NOT_FOUND",
     "RATE_LIMIT_EXCEEDED", "DAILY_LIMIT_EXCEEDED", "MONTHLY_LIMIT_EXCEEDED",
     "INTERNAL_ERROR", "TTS_SERVICE_ERROR", "STORAGE_ERROR", "NOT_IMPLEMENTED",
     "SERVICE_UNAVAILABLE"}

\* error_map[code](): the lambda stored under a recognized code
error_map(code, message, details, details_data) ==
    CASE code = "VALIDATION_ERROR" -> ValidationError(message, details)
      [] code = "INVALID_INPUT" ->
            InvalidInputError(Get(details_data, "field", "unknown"),
                              Get(details_data, "reason", message),
                              Get(details_data, "provided_type", None))
      [] code = "MISSING_FIELD" -> MissingFieldError(Get(details_data, "field", "unknown"))
      [] code = "INVALID_VOICE" ->
            InvalidVoiceError(Get(details_data, "requested_voice", ""),
                              Get(details_data, "available_voices", "[]"))
      [] code = "UNAUTHORIZED" -> UnauthorizedError(message)
      [] code = "MISSING_API_KEY" -> MissingApiKeyError
      [] code = "INVALID_API_KEY" -> InvalidApiKeyError
      [] code = "EXPIRED_TOKEN" -> ExpiredTokenError
      [] code = "FORBIDDEN" -> ForbiddenError(message)
      [] code = "INSUFFICIENT_TIER" ->
            InsufficientTierError(Get(details_data, "required_tier", ""),
                                  Get(details_data, "current_tier", ""))
      [] code = "REVOKED_KEY" -> RevokedKeyError
      [] code = "NOT_FOUND" -> NotFoundError(message)
      [] code = "MEMO_NOT_FOUND" -> MemoNotFoundError(Get(details_data, "field", ""))
      [] code = "RATE_LIMIT_EXCEEDED" -> RateLimitError(message)
      [] code = "DAILY_LIMIT_EXCEEDED" ->
            DailyLimitExceededError(Get(details_data, "limit", "0"),
                                    Get(details_data, "used", "0"),
                                    Get(details_data, "reset_at", ""))
      [] code = "MONTHLY_LIMIT_EXCEEDED" ->
            MonthlyLimitExceededError(Get(details_data, "limit", "0"),
                                      Get(details_data, "used", "0"),
                                      Get(details_data, "reset_at", ""))
      [] code = "INTERNAL_ERROR" -> InternalError(message)
      [] code = "TTS_SERVICE_ERROR" -> TTSServiceError(message)
      [] code = "STORAGE_ERROR" -> StorageError(Get(details_data, "operation", "unknown"))
      [] code = "NOT_IMPLEMENTED" -> NotImplementedError(message)
      [] code = "SERVICE_UNAVAILABLE" -> ServiceUnavailableError(message)

\* create_error_from_response(status_code, error_response); error_response is a
\* decoded JSON value [type |-> "dict" | "list", value |-> ...].
\* The result is [kind |-> "return", value |-> error] or [kind |-> "raise", error |-> e].
create_error_from_response(status_code, error_response) ==
    IF error_response.type # "dict"
    THEN [kind |-> "raise", error |-> Raw("AttributeError")]
    ELSE
    LET error_data == Get(error_response.value, "error", EmptyDict)
        code == Get(error_data, "code", "INTERNAL_ERROR")
        message == Get(error_data, "message", "Unknown error")
        details_data == Get(error_data, "details", EmptyDict)
    IN  IF Truthy(details_data) /\ ~AcceptsKeywords(details_data)
        THEN [kind |-> "raise", error |-> Raw("TypeError")]
        ELSE LET details == IF Truthy(details_data) THEN ErrorDetails(details_data)
                            ELSE NoneObj
             IN  IF code \in error_map_keys
                 THEN [kind |-> "return",
                       value |-> error_map(code, message, details, details_data)]
                 ELSE [kind |-> "return",
                       value |-> AgentTalkError(code, <<message>>, status_code, details)]

\* ------------------------------------------------------ exception classes
\* the base class of each exception class that can occur (Python's hierarchy)
Parent(c) ==
    CASE c = "HTTPError" -> "URLError"
      [] c \in {"URLError", "TimeoutError", "ConnectionError"} -> "OSError"
      [] c = "ConnectionResetError" -> "ConnectionError"
      [] c = "JSONDecodeError" -> "ValueError"
      [] c = "KeyError" -> "LookupError"
      [] c \in {"OSError", "ValueError", "LookupError", "TypeError", "AttributeError",
                "AgentTalkError"} -> "Exception"
      [] c = "Exception" -> "BaseException"
      [] OTHER -> "AgentTalkError"

RECURSIVE IsSubclass(_, _)
IsSubclass(c, base) ==
    IF c = base THEN TRUE
    ELSE IF c = "BaseException" THEN FALSE
    ELSE IsSubclass(Parent(c), base)

IsInstance(e, base) == IsSubclass(e.exc, base)

\* ------------------------------------------------------- the stub server
\* What the server (or the network) does to a request:
\*   net     "ok" when an HTTP response arrives, else the failure of the network call
\*   status  the HTTP status of the response, reason its reason phrase
\*   text    the shape of the response body: "empty", "malformed" (not JSON),
\*           "dict" (a JSON object) or "list" (a JSON array)
\*   json    the decoded object when text = "dict"
Statuses == {200, 404, 500}

Reason(status) ==
    CASE status = 200 -> "OK"
      [] status = 404 -> "Not Found"
      [] status = 500 -> "Internal Server Error"

\* str(e.code)
Str(status) ==
    CASE status = 200 -> "200"
      [] status = 404 -> "404"
      [] status = 500 -> "500"

WireCodes == error_map_keys \cup {"TOTALLY_UNKNOWN"}

DetailKeys == ErrorDetailsFields \cup {"requestedVoice", "availableVoices"}

\* the value the stub sends under each details key
DetailValue(k) ==
    CASE k = "field" -> "text"
      [] k = "reason" -> "too long"
      [] k = "provided_type" -> "number"
      [] k = "requested_voice" -> "bob"
      [] k = "available_voices" -> "[rachel,adam]"
      [] k = "limit" -> "100"
      [] k = "used" -> "101"
      [] k = "reset_at" -> "2024-01-02T00:00:00Z"
      [] k = "required_tier" -> "pro"
      [] k = "current_tier" -> "hobby"
      [] k = "operation" -> "upload"
      [] k = "memo_id" -> "m404"
      [] k = "requestedVoice" -> "invalid"
      [] k = "availableVoices" -> "[rachel,domi,adam]"

DetailsDicts ==
    { [k \in K |-> DetailValue(k)] :
        K \in { K \in SUBSET DetailKeys : Cardinality(K) <= MaxDetailKeys } }

\* error objects with any of code, message and details absent
ErrorDatas ==
    UNION { { [k \in K |-> CASE k = "code" -> c
                             [] k = "message" -> "Something went wrong"
                             [] k = "details" -> d] : c \in WireCodes, d \in DetailsDicts }
            : K \in SUBSET {"code", "message", "details"} }

ErrorEnvelopes == { [error |-> e] : e \in ErrorDatas }

FullVoice(id, name) ==
    [id |-> id, name |-> name, gender |-> "female", description |-> "Calm"]

Drop(d, key) == [k \in DOMAIN d \ {key} |-> d[k]]

FullMemo ==
    [id |-> "m1", text |-> "hi", voice |-> FullVoice("rachel", "Rachel"),
     audio |-> [url |-> "https://x/a.mp3", duration |-> "1.5", format |-> "mp3"],
     createdAt |-> "2024-01-01T00:00:00Z"]

OtherMemo ==
    [id |-> "m2", text |-> "bye", voice |-> [id |-> "adam", name |-> "Adam",
                                             gender |-> "male", description |-> "Deep"],
     audio |-> [url |-> "https://x/b.wav", duration |-> "2.0", format |-> "wav"],
     createdAt |-> "2024-02-02T00:00:00Z"]

MemoBodies ==
    {FullMemo, OtherMemo}
    \cup { Drop(FullMemo, k) : k \in DOMAIN FullMemo }
    \cup { [FullMemo EXCEPT !.voice = Drop(FullMemo.voice, k)] : k \in DOMAIN FullMemo.voice }
    \cup { [FullMemo EXCEPT !.audio = Drop(FullMemo.audio, k)] : k \in DOMAIN FullMemo.audio }

FullHealth ==
    [status |-> "ok", service |-> "agent-talk", version |-> "1.0.0",
     timestamp |-> "2024-01-01T00:00:01Z", ttsMode |-> "simulation",
     database |-> [connected |-> "true"]]

HealthBodies == {FullHealth} \cup { Drop(FullHealth, k) : k \in DOMAIN FullHealth }

WireVoices ==
    { FullVoice(id, name) : id \in {"rachel", "adam"}, name \in {"First", "Second"} }
    \cup { Drop(FullVoice("rachel", "First"), "description") }

VoicesBodies ==
    { [voices |-> vs] : vs \in UNION { [1..n -> WireVoices] : n \in 0..MaxVoices } }

JsonObjects ==
    {EmptyDict} \cup ErrorEnvelopes \cup MemoBodies \cup HealthBodies \cup VoicesBodies

NetFailures == {"refused", "dns", "connect_timeout", "read_timeout", "reset"}

Response(status, text, json) ==
    [net |-> "ok", status |-> status, reason |-> Reason(status), text |-> text, json |-> json]

ServerBehaviours ==
    { [net |-> n, status |-> 0, reason |-> "", text |-> "empty", json |-> EmptyDict]
        : n \in NetFailures }
    \cup { Response(st, t, EmptyDict) : st \in Statuses, t \in {"empty", "malformed", "list"} }
    \cup { Response(st, "dict", j) : st \in Statuses, j \in JsonObjects }

\* ------------------------------------------------------------- client.py
DEFAULT_BASE_URL == "https://talk.onhyper.io"

Return(v) == [kind |-> "return", value |-> v]
Raise(e) == [kind |-> "raise", error |-> e]

Dict(d) == [type |-> "dict", value |-> d]

\* json.loads(response_body)
json_loads(srv) ==
    CASE srv.text \in {"empty", "malformed"} -> Raise(Raw("JSONDecodeError"))
      [] srv.text = "list" -> Return([type |-> "list", value |-> EmptyDict])
      [] srv.text = "dict" -> Return(Dict(srv.json))

\* urllib.request.urlopen(request, timeout) against the stub: the response object,
\* or the exception the standard library raises
urlopen(srv) ==
    CASE srv.net \in {"refused", "dns", "connect_timeout"} ->
            Raise([exc |-> "URLError", reason |-> srv.net])
      [] srv.net = "ok" /\ (srv.status < 200 \/ srv.status >= 300) ->
            Raise([exc |-> "HTTPError", http_code |-> srv.status, reason |-> srv.reason])
      [] OTHER -> Return(srv)

\* response.read() on an open response
read(srv) ==
    CASE srv.net = "read_timeout" -> Raise(Raw("TimeoutError"))
      [] srv.net = "reset" -> Raise(Raw("ConnectionResetError"))
      [] OTHER -> Return(srv.text)

\* the body of the try block of HttpClient._request
TryBlock(srv) ==
    LET response == urlopen(srv)
    IN  IF response.kind = "raise" THEN response
        ELSE LET response_body == read(srv)
             IN  IF response_body.kind = "raise" THEN response_body
                 ELSE IF response_body.value = "empty" THEN Return(Dict(EmptyDict))
                 ELSE json_loads(srv)

\* except urllib.error.HTTPError as e
ExceptHTTPError(e, srv) ==
    LET error_response == json_loads(srv)
    IN  IF error_response.kind = "raise"
        THEN Raise(AgentTalkError("INTERNAL_ERROR",
                                  <<"HTTP ", Str(e.http_code), ": ", e.reason>>,
                                  e.http_code, NoneObj))
        ELSE LET made == create_error_from_response(e.http_code, error_response.value)
             IN  IF made.kind = "raise" THEN made ELSE Raise(made.value)

\* except urllib.error.URLError as e
ExceptURLError(e) ==
    Raise(AgentTalkError("SERVICE_UNAVAILABLE",
                         <<"Network error: Unable to connect to Agent Talk API: ", e.reason>>,
                         503, NoneObj))

\* except TimeoutError
ExceptTimeoutError ==
    Raise(AgentTalkError("SERVICE_UNAVAILABLE", <<"Request timeout">>, 408, NoneObj))

\* mutant: the Authorization header is attached whatever the auth flag says
Request_IgnoresAuthFlag(key, method, path, body, auth) ==
    [method |-> method,
     url |-> <<DEFAULT_BASE_URL, path>>,
     headers |-> LET headers == ("Content-Type" :> <<"application/json">>)
                                @@ ("Accept" :> <<"application/json">>)
                 IN  IF TruthyStr(key)
                     THEN headers @@ ("Authorization" :> <<"Bearer ", key>>)
                     ELSE headers,
     data |-> body]

\* the urllib.request.Request that HttpClient._request builds; data is the body
\* dict that json.dumps serializes (NoneObj when there is none)
Request(key, method, path, body, auth) ==
    [method |-> method,
     url |-> <<DEFAULT_BASE_URL, path>>,
     headers |-> LET headers == ("Content-Type" :> <<"application/json">>)
                                @@ ("Accept" :> <<"application/json">>)
                 IN  IF auth /\ TruthyStr(key)
                     THEN headers @@ ("Authorization" :> <<"Bearer ", key>>)
                     ELSE headers,
     data |-> body]

\* the except clauses of HttpClient._request, in source order
Handle(r, srv) ==
    IF r.kind = "return" THEN r
    ELSE IF IsInstance(r.error, "HTTPError") THEN ExceptHTTPError(r.error, srv)
    ELSE IF IsInstance(r.error, "URLError") THEN ExceptURLError(r.error)
    ELSE IF IsInstance(r.error, "TimeoutError") THEN ExceptTimeoutError
    ELSE r

\* HttpClient._request against the stub: the requests handed to urlopen and the
\* outcome of the call
HttpClient_request(key, srv, method, path, body, auth) ==
    [sent |-> <<Request(key, method, path, body, auth)>>,
     outcome |-> Handle(TryBlock(srv), srv)]

HasKeys(d, keys) == keys \subseteq DOMAIN d

\* the Memo(...) construction of MemoApi.create and MemoApi.demo
Memo(response) ==
    IF response.type # "dict" THEN Raise(Raw("TypeError"))
    ELSE LET r == response.value
         IN  IF /\ HasKeys(r, {"id", "text", "voice", "audio", "createdAt"})
                /\ HasKeys(r["voice"], {"id", "name", "gender", "description"})
                /\ HasKeys(r["audio"], {"url", "duration", "format"})
             THEN Return([id |-> r["id"], text |-> r["text"],
                          voice |-> MemoVoice(r["voice"]),
                          audio |-> MemoAudio(r["audio"]),
                          created_at |-> r["createdAt"]])
             ELSE Raise(Raw("KeyError"))

\* the list comprehension of VoicesApi.list
VoiceList(response) ==
    IF response.type # "dict" THEN Raise(Raw("TypeError"))
    ELSE LET r == response.value
         IN  IF ~HasKeys(r, {"voices"}) THEN Raise(Raw("KeyError"))
             ELSE IF \E i \in 1..Len(r["voices"]) :
                        ~HasKeys(r["voices"][i], {"id", "name", "gender", "description"})
             THEN Raise(Raw("KeyError"))
             ELSE Return([i \in 1..Len(r["voices"]) |-> Voice(r["voices"][i])])

\* mutant: the loop keeps scanning and returns the last match
RECURSIVE Scan_LastMatch(_, _, _)
Scan_LastMatch(voices, i, voice_id) ==
    IF i > Len(voices) THEN NoneObj
    ELSE LET rest == Scan_LastMatch(voices, i + 1, voice_id)
         IN  IF rest # NoneObj THEN rest
             ELSE IF voices[i].id = voice_id THEN voices[i]
             ELSE NoneObj

\* the loop of VoicesApi.get
RECURSIVE Scan(_, _, _)
Scan(voices, i, voice_id) ==
    IF i > Len(voices) THEN NoneObj
    ELSE IF voices[i].id = voice_id THEN voices[i]
    ELSE Scan(voices, i + 1, voice_id)

\* the HealthResponse(...) construction of AgentTalk.health
HealthResponse(response) ==
    IF response.type # "dict" THEN Raise(Raw("TypeError"))
    ELSE LET r == response.value
         IN  IF HasKeys(r, {"status", "service", "version", "timestamp", "ttsMode", "database"})
             THEN Return([status |-> r["status"], service |-> r["service"],
                          version |-> r["version"], timestamp |-> r["timestamp"],
                          tts_mode |-> r["ttsMode"], database |-> r["database"]])
             ELSE Raise(Raw("KeyError"))

\* an exception raised by the call r propagates out of the facade method
Propagates(r) == r.outcome.kind = "raise"

MemoApi_create(key, srv, text, voice) ==
    LET r == HttpClient_request(key, srv, "POST", "/api/v1/memo",
                                [text |-> text, voice |-> voice], TRUE)
    IN  IF Propagates(r) THEN r
        ELSE [sent |-> r.sent, outcome |-> Memo(r.outcome.value)]

MemoApi_demo(key, srv, text, voice) ==
    LET r == HttpClient_request(key, srv, "POST", "/api/v1/demo",
                                [text |-> text, voice |-> voice], FALSE)
    IN  IF Propagates(r) THEN r
        ELSE [sent |-> r.sent, outcome |-> Memo(r.outcome.value)]

VoicesApi_list(key, srv) ==
    LET r == HttpClient_request(key, srv, "GET", "/api/v1/voices", NoneObj, FALSE)
    IN  IF Propagates(r) THEN r
        ELSE [sent |-> r.sent, outcome |-> VoiceList(r.outcome.value)]

VoicesApi_get(key, srv, voice_id) ==
    LET r == VoicesApi_list(key, srv)
    IN  IF Propagates(r) THEN r
        ELSE [sent |-> r.sent, outcome |-> Return(Scan(r.outcome.value, 1, voice_id))]

AgentTalk_health(key, srv) ==
    LET r == HttpClient_request(key, srv, "GET", "/health", NoneObj, FALSE)
    IN  IF Propagates(r) THEN r
        ELSE [sent |-> r.sent, outcome |-> HealthResponse(r.outcome.value)]

\* ------------------------------------------------------------------ state
Texts == {"hi"}
VoiceIds == {"rachel", "adam", "nonexistent"}
ApiKeys == {None, "at_live_test123"}

NoCall == [op |-> "none", text |-> None, voice |-> None]
NoOutcome == [kind |-> "none"]

\* ---------------------------------------------------------- configuration
DEFAULT_TIMEOUT == 30
DefaultTimeoutMs == 30000

\* an Optional[int]: <<>> is None, <<n>> is the int n
NoInt == <<>>
Int1(n) == <<n>>

\* truth value of an Optional[int]
TruthyInt(x) == x # NoInt /\ x[1] # 0

\* AgentTalk.__init__: the timeout handed to AgentTalkConfig, `timeout or 30000`
AgentTalk_init_timeout(timeout) == IF TruthyInt(timeout) THEN timeout[1] ELSE DefaultTimeoutMs

\* HttpClient.__init__: self.timeout, in seconds
HttpClient_init_timeout(config_timeout) ==
    IF config_timeout # 0 THEN config_timeout \div 1000 ELSE DEFAULT_TIMEOUT

TimeoutArgs == {NoInt} \cup { Int1(t) : t \in 0..MaxTimeoutMs }

\* --------------------------------------------------------- orchestrator.py
MAX_PARALLEL == 5

\* the three-digit number in the names and ids of the tasks that depend on nothing
Num(i) ==
    CASE i = 1 -> "001" [] i = 2 -> "002" [] i = 3 -> "003" [] i = 4 -> "004"
      [] i = 5 -> "005" [] i = 6 -> "006" [] i = 7 -> "007" [] i = 8 -> "008"

IndependentName(i) == "task-" \o Num(i) \o "-job"

IndependentNames == { IndependentName(i) : i \in 1..NumIndependent }

\* the stems of the task files (the file is <stem>.md)
TaskNames ==
    IndependentNames
    \cup {"task-101-api", "task-102-ui", "task-103-agent-talk-docs", "task-201-blog"}

\* filepath.stem.split('-')
Segments(name) ==
    CASE name \in IndependentNames ->
            <<"task", Num(CHOOSE i \in 1..NumIndependent : IndependentName(i) = name), "job">>
      [] name = "task-101-api" -> <<"task", "101", "api">>
      [] name = "task-102-ui" -> <<"task", "102", "ui">>
      [] name = "task-103-agent-talk-docs" -> <<"task", "103", "agent", "talk", "docs">>
      [] name = "task-201-blog" -> <<"task", "201", "blog">>

\* a frontmatter value written  [a, b]  and one written as a bare string
List(items) == [kind |-> "list", value |-> items]
Scalar(item) == [kind |-> "str", value |-> <<item>>]

\* parse_task_frontmatter(content) of each task file
Frontmatter(name) ==
    CASE name \in IndependentNames ->
            LET i == CHOOSE i \in 1..NumIndependent : IndependentName(i) = name
            IN  ("id" :> "task-" \o Num(i)) @@ ("project" :> "agent-talk")
                @@ (CASE i % 3 = 0 -> ("priority" :> "high")
                      [] i % 3 = 2 -> ("priority" :> "low")
                      [] OTHER -> EmptyDict)
                @@ (IF i % 2 = 0 THEN ("depends_on" :> List(<<>>)) ELSE EmptyDict)
      [] name = "task-101-api" ->
            ("id" :> "task-101") @@ ("project" :> "agent-talk") @@ ("priority" :> "high")
            @@ ("depends_on" :> Scalar("task-001"))
      [] name = "task-102-ui" ->
            ("id" :> "task-102") @@ ("project" :> "agent-talk") @@ ("priority" :> "urgent")
            @@ ("depends_on" :> List(<<"task-101", "task-900">>))
      [] name = "task-103-agent-talk-docs" ->
            ("priority" :> "low") @@ ("depends_on" :> List(<<"task-002">>))
      [] name = "task-201-blog" ->
            ("id" :> "task-201") @@ ("project" :> "blog") @@ ("priority" :> "high")

\* read_task(filepath), without title and content
read_task(filepath) ==
    LET frontmatter == Frontmatter(filepath)
        depends_on == Get(frontmatter, "depends_on", List(<<>>))
    IN  [filepath |-> filepath,
         id |-> Get(frontmatter, "id", filepath),
         priority |-> Get(frontmatter, "priority", "medium"),
         status |-> Get(frontmatter, "status", "todo"),
         depends_on |-> IF depends_on.kind = "str" /\ depends_on.value \in {<<"[]">>, <<"">>}
                        THEN <<>>
                        ELSE depends_on.value,
         project |-> Get(frontmatter, "project", "")]

\* 'agent-talk' in id
ContainsAgentTalk(id) == id \in {"task-103-agent-talk-docs"}

\* mutant: only the first dependency is looked at
check_dependencies_met_FirstOnly(task, completed_tasks) ==
    IF task.depends_on = <<>> THEN TRUE
    ELSE ~(task.depends_on[1] # "" /\ task.depends_on[1] \notin completed_tasks)

check_dependencies_met(task, completed_tasks) ==
    IF task.depends_on = <<>> THEN TRUE
    ELSE \A i \in 1..Len(task.depends_on) :
            ~(task.depends_on[i] # "" /\ task.depends_on[i] \notin completed_tasks)

\* stem.replace('task-', ''), on the segments of the stem
RECURSIVE RemoveTaskPrefix(_)
RemoveTaskPrefix(segs) ==
    IF segs = <<>> THEN <<>>
    ELSE IF Len(segs) >= 2 /\ Head(segs) = "task" THEN RemoveTaskPrefix(Tail(segs))
    ELSE <<Head(segs)>> \o RemoveTaskPrefix(Tail(segs))

\* the id that main derives from a file of the done folder
DerivedId(name) == "task-" \o RemoveTaskPrefix(Segments(name))[1]

\* priority_order.get(priority, 1)
priority_order(priority) ==
    CASE priority = "high" -> 0 [] priority = "medium" -> 1 [] priority = "low" -> 2
      [] OTHER -> 1

\* no orchestrator is modelled
OrchUnused == folder = <<>> /\ agents = {} /\ state = NoneObj

\* ------------------------------------------------------ calls in progress
Threads == {1, 2}

NoConn == [net |-> "none"]
NoLocals == [call |-> NoCall, req |-> NoneObj, conn |-> NoConn, response |-> NoOutcome]

\* no call is in progress on any thread
ConcUnused ==
    /\ client = NoneObj
    /\ pc = [t \in Threads |-> "idle"]
    /\ locals = [t \in Threads |-> NoLocals]
    /\ invoked = [t \in Threads |-> NoCall]
    /\ served = [t \in Threads |-> NoConn]
    /\ result = [t \in Threads |-> NoOutcome]
    /\ overlapped = FALSE

\* no client is being constructed
ConfigUnused == timeout_arg = NoInt /\ client_timeout = NoInt

ConfigInit == timeout_arg \in TimeoutArgs /\ client_timeout = NoInt

\* no facade call is modelled
SdkUnused ==
    /\ api_key = None
    /\ server = [net |-> "refused", status |-> 0, reason |-> "", text |-> "empty",
                 json |-> EmptyDict]
    /\ call = NoCall
    /\ requests = <<>>
    /\ outcome = NoOutcome

\* AgentTalk(timeout=timeout_arg)
Construct ==
    /\ client_timeout = NoInt
    /\ client_timeout' = Int1(HttpClient_init_timeout(AgentTalk_init_timeout(timeout_arg)))
    /\ UNCHANGED <<timeout_arg, sdk_vars, conc_vars, orch_vars>>

InitConfig == ConfigInit /\ SdkUnused /\ ConcUnused /\ OrchUnused

NextConfig == Construct

SpecConfig == InitConfig /\ [][NextConfig]_vars

\* ------------------------------------------------------------ facade calls
Init ==
    /\ api_key \in ApiKeys
    /\ server \in ServerBehaviours
    /\ call = NoCall
    /\ requests = <<>>
    /\ outcome = NoOutcome
    /\ ConfigUnused
    /\ ConcUnused
    /\ OrchUnused

\* one facade call runs to completion
Finish(op, text, voice, r) ==
    /\ call' = [op |-> op, text |-> text, voice |-> voice]
    /\ requests' = requests \o r.sent
    /\ outcome' = r.outcome
    /\ UNCHANGED <<api_key, server, config_vars, conc_vars, orch_vars>>

\* client.memo.create(text, voice)
CallMemoCreate ==
    /\ call = NoCall
    /\ \E text \in Texts, voice \in VoiceIds :
          Finish("memo.create", text, voice, MemoApi_create(api_key, server, text, voice))

\* client.memo.demo(text, voice)
CallMemoDemo ==
    /\ call = NoCall
    /\ \E text \in Texts, voice \in VoiceIds :
          Finish("memo.demo", text, voice, MemoApi_demo(api_key, server, text, voice))

\* client.voices.list()
CallVoicesList ==
    /\ call = NoCall
    /\ Finish("voices.list", None, None, VoicesApi_list(api_key, server))

\* client.voices.get(voice_id)
CallVoicesGet ==
    /\ call = NoCall
    /\ \E voice_id \in VoiceIds :
          Finish("voices.get", None, voice_id, VoicesApi_get(api_key, server, voice_id))

\* client.health()
CallHealth ==
    /\ call = NoCall
    /\ Finish("health", None, None, AgentTalk_health(api_key, server))

\* a direct call create_error_from_response(status, decoded body), as the tests make it
CallCreateError ==
    /\ call = NoCall
    /\ server.net = "ok"
    /\ server.text \in {"dict", "list"}
    /\ call' = [op |-> "create_error_from_response", text |-> None, voice |-> None]
    /\ outcome' = create_error_from_response(server.status, json_loads(server).value)
    /\ UNCHANGED <<api_key, server, requests, config_vars, conc_vars, orch_vars>>

Next ==
    \/ CallMemoCreate
    \/ CallMemoDemo
    \/ CallVoicesList
    \/ CallVoicesGet
    \/ CallHealth
    \/ CallCreateError

Spec == Init /\ [][Next]_vars

\* ------------------------------------------------------- concurrent calls
\* the calls a thread can make on the client
Calls ==
    { [op |-> o, text |-> "hi", voice |-> "rachel"] : o \in {"memo.create", "memo.demo"} }
    \cup { [op |-> o, text |-> None, voice |-> None] : o \in {"voices.list", "health"} }
    \cup { [op |-> "voices.get", text |-> None, voice |-> v] : v \in {"adam", "nonexistent"} }

\* the response bodies the stub server answers concurrent calls with
ConcBodies ==
    { EmptyDict, FullMemo, Drop(FullMemo, "audio"), FullHealth,
      [voices |-> <<>>],
      [voices |-> <<FullVoice("adam", "First")>>],
      [error |-> [code |-> "INVALID_VOICE", message |-> "Something went wrong"]] }

ConcBehaviours ==
    { s \in ServerBehaviours :
        \/ s.net # "ok"
        \/ s.status # 500 /\ s.text = "malformed"
        \/ s.status # 500 /\ s.text = "dict" /\ s.json \in ConcBodies }

\* the client object that AgentTalk.__init__ / HttpClient.__init__ built
Client(key) == [base_url |-> DEFAULT_BASE_URL, api_key |-> key, timeout |-> DEFAULT_TIMEOUT]

\* mutant: the variables of _request are kept in one slot that all calls share
Store_Shared(frames, t, frame) == [u \in DOMAIN frames |-> frame]

\* url, headers, req, response and response_body are local variables of the
\* running call of _request: a write by call t changes only t's frame
Store(frames, t, frame) == [frames EXCEPT ![t] = frame]

\* the request each facade method has _request build
RequestOf(c, key) ==
    CASE c.op = "memo.create" ->
            Request(key, "POST", "/api/v1/memo", [text |-> c.text, voice |-> c.voice], TRUE)
      [] c.op = "memo.demo" ->
            Request(key, "POST", "/api/v1/demo", [text |-> c.text, voice |-> c.voice], FALSE)
      [] c.op \in {"voices.list", "voices.get"} ->
            Request(key, "GET", "/api/v1/voices", NoneObj, FALSE)
      [] c.op = "health" -> Request(key, "GET", "/health", NoneObj, FALSE)

\* what each facade method makes of the dict that _request returned
FacadeReturn(c, response) ==
    CASE c.op \in {"memo.create", "memo.demo"} -> Memo(response)
      [] c.op = "voices.list" -> VoiceList(response)
      [] c.op = "voices.get" ->
            LET voices == VoiceList(response)
            IN  IF voices.kind = "raise" THEN voices
                ELSE Return(Scan(voices.value, 1, c.voice))
      [] c.op = "health" -> HealthResponse(response)

\* the same call made alone against the server behaviour srv
Alone(c, key, srv) ==
    CASE c.op = "memo.create" -> MemoApi_create(key, srv, c.text, c.voice)
      [] c.op = "memo.demo" -> MemoApi_demo(key, srv, c.text, c.voice)
      [] c.op = "voices.list" -> VoicesApi_list(key, srv)
      [] c.op = "voices.get" -> VoicesApi_get(key, srv, c.voice)
      [] c.op = "health" -> AgentTalk_health(key, srv)

InFlight(t) == pc[t] \in {"built", "received"}

ConcInit ==
    /\ client \in { Client(key) : key \in ApiKeys }
    /\ pc = [t \in Threads |-> "idle"]
    /\ locals = [t \in Threads |-> NoLocals]
    /\ invoked = [t \in Threads |-> NoCall]
    /\ served = [t \in Threads |-> NoConn]
    /\ result = [t \in Threads |-> NoOutcome]
    /\ overlapped = FALSE

\* thread t enters a facade method, which calls _request: url, headers and req are
\* built from the arguments and from self.base_url and self.api_key
Enter(t) ==
    /\ pc[t] = "idle"
    /\ \E c \in Calls :
        /\ invoked' = [invoked EXCEPT ![t] = c]
        /\ locals' = Store(locals, t, [locals[t] EXCEPT !.call = c,
                                                        !.req = RequestOf(c, client.api_key)])
    /\ pc' = [pc EXCEPT ![t] = "built"]
    /\ overlapped' = (overlapped \/ \E u \in Threads \ {t} : InFlight(u))
    /\ UNCHANGED <<client, served, result, sdk_vars, config_vars, orch_vars>>

\* the try block of _request on thread t: urlopen on a connection of its own, read
\* and json.loads; the server answers this connection with behaviour srv
Exchange(t) ==
    /\ pc[t] = "built"
    /\ \E srv \in ConcBehaviours :
        /\ served' = [served EXCEPT ![t] = srv]
        /\ locals' = Store(locals, t, [locals[t] EXCEPT !.conn = srv,
                                                        !.response = TryBlock(srv)])
    /\ pc' = [pc EXCEPT ![t] = "received"]
    /\ UNCHANGED <<client, invoked, result, overlapped, sdk_vars, config_vars, orch_vars>>

\* the except clauses of _request and the rest of the facade method on thread t
Complete(t) ==
    /\ pc[t] = "received"
    /\ LET frame == locals[t]
           r == Handle(frame.response, frame.conn)
       IN  result' = [result EXCEPT ![t] =
                        [sent |-> <<frame.req>>,
                         outcome |-> IF r.kind = "raise" THEN r
                                     ELSE FacadeReturn(frame.call, r.value)]]
    /\ pc' = [pc EXCEPT ![t] = "done"]
    /\ UNCHANGED <<client, locals, invoked, served, overlapped, sdk_vars, config_vars, orch_vars>>

InitConc == ConcInit /\ SdkUnused /\ ConfigUnused /\ OrchUnused

NextConc == \E t \in Threads : Enter(t) \/ Exchange(t) \/ Complete(t)

SpecConc == InitConc /\ [][NextConc]_vars

\* ----------------------------------------------------- orchestrator runs
\* the files of a folder
Files(dir) == { f \in TaskNames : folder[f] = dir }

\* main: the ids of the saved state and the ids derived from the done folder
CompletedTasks == state.completed_tasks \cup { DerivedId(f) : f \in Files("done") }

\* get_all_tasks(): the folder a file is in overrides its status
get_all_tasks ==
    { [read_task(f) EXCEPT !.status = "todo"] : f \in Files("todos") }
    \cup { [read_task(f) EXCEPT !.status = "in-progress"] : f \in Files("in-progress") }

agent_talk_tasks ==
    { t \in get_all_tasks : t.project = "agent-talk" \/ ContainsAgentTalk(t.id) }

ready_tasks ==
    { t \in agent_talk_tasks : t.status = "todo" /\ check_dependencies_met(t, CompletedTasks) }

Min(a, b) == IF a <= b THEN a ELSE b

\* ready_tasks.sort(key=priority)[:MAX_PARALLEL]: the sort is stable and the order
\* in which glob lists a folder is not specified, so the slice is any MAX_PARALLEL
\* of the ready tasks that leaves out none of a better priority than one it takes
IsSlice(tasks_to_spawn) ==
    /\ tasks_to_spawn \subseteq ready_tasks
    /\ Cardinality(tasks_to_spawn) = Min(MAX_PARALLEL, Cardinality(ready_tasks))
    /\ \A taken \in tasks_to_spawn : \A left \in ready_tasks \ tasks_to_spawn :
            priority_order(taken.priority) <= priority_order(left.priority)

\* get_orchestrator_state() when there is no state file, or one whose
\* completed_tasks somebody filled in; active_agents holds the task ids of its
\* entries, last_run and spawned_at are times and are left out
SavedStates ==
    { [active_agents |-> {}, completed_tasks |-> c] : c \in {{}, {"task-900"}} }

OrchInit ==
    /\ folder = [f \in TaskNames |-> "todos"]
    /\ agents = {}
    /\ state \in SavedStates

\* one run of main(): every task of the slice is moved to in-progress by
\* spawn_agent, and the spawn command succeeds for some of them
Run ==
    \E tasks_to_spawn \in SUBSET ready_tasks :
        /\ IsSlice(tasks_to_spawn)
        /\ tasks_to_spawn # {}
        /\ \E succeeded \in SUBSET tasks_to_spawn :
            /\ folder' = [f \in TaskNames |->
                            IF \E t \in tasks_to_spawn : t.filepath = f
                            THEN "in-progress" ELSE folder[f]]
            /\ agents' = agents \cup { t.filepath : t \in succeeded }
            /\ state' = [state EXCEPT
                           !.active_agents = @ \cup { t.id : t \in succeeded }]
        /\ UNCHANGED <<sdk_vars, config_vars, conc_vars>>

\* the agent spawned for a task completes it: it moves the file to the done folder
AgentFinish(f) ==
    /\ f \in agents
    /\ folder[f] = "in-progress"
    /\ folder' = [folder EXCEPT ![f] = "done"]
    /\ agents' = agents \ {f}
    /\ UNCHANGED <<state, sdk_vars, config_vars, conc_vars>>

InitOrch == OrchInit /\ SdkUnused /\ ConfigUnused /\ ConcUnused

NextOrch == Run \/ \E f \in TaskNames : AgentFinish(f)

SpecOrch == InitOrch /\ [][NextOrch]_vars

\* ================================================================= claims
\* The taxonomy table: the class and the status that errors.py declares for a code
Taxonomy(code) ==
    CASE code = "VALIDATION_ERROR" -> [class |-> "ValidationError", status |-> 400]
      [] code = "INVALID_INPUT" -> [class |-> "InvalidInputError", status |-> 400]
      [] code = "MISSING_FIELD" -> [class |-> "MissingFieldError", status |-> 400]
      [] code = "INVALID_VOICE" -> [class |-> "InvalidVoiceError", status |-> 400]
      [] code = "UNAUTHORIZED" -> [class |-> "UnauthorizedError", status |-> 401]
      [] code = "MISSING_API_KEY" -> [class |-> "MissingApiKeyError", status |-> 401]
      [] code = "INVALID_API_KEY" -> [class |-> "InvalidApiKeyError", status |-> 401]
      [] code = "EXPIRED_TOKEN" -> [class |-> "ExpiredTokenError", status |-> 401]
      [] code = "FORBIDDEN" -> [class |-> "ForbiddenError", status |-> 403]
      [] code = "INSUFFICIENT_TIER" -> [class |-> "InsufficientTierError", status |-> 403]
      [] code = "REVOKED_KEY" -> [class |-> "RevokedKeyError", status |-> 403]
      [] code = "NOT_FOUND" -> [class |-> "NotFoundError", status |-> 404]
      [] code = "MEMO_NOT_FOUND" -> [class |-> "MemoNotFoundError", status |-> 404]
      [] code = "RATE_LIMIT_EXCEEDED" -> [class |-> "RateLimitError", status |-> 429]
      [] code = "DAILY_LIMIT_EXCEEDED" -> [class |-> "DailyLimitExceededError", status |-> 429]
      [] code = "MONTHLY_LIMIT_EXCEEDED" ->
            [class |-> "MonthlyLimitExceededError", status |-> 429]
      [] code = "INTERNAL_ERROR" -> [class |-> "InternalError", status |-> 500]
      [] code = "TTS_SERVICE_ERROR" -> [class |-> "TTSServiceError", status |-> 500]
      [] code = "STORAGE_ERROR" -> [class |-> "StorageError", status |-> 500]
      [] code = "NOT_IMPLEMENTED" -> [class |-> "NotImplementedError", status |-> 501]
      [] code = "SERVICE_UNAVAILABLE" -> [class |-> "ServiceUnavailableError", status |-> 503]

TaxonomyCodes == error_map_keys

\* the call just made was create_error_from_response(server.status, server.json)
MapperCalled == call.op = "create_error_from_response" /\ server.text = "dict"

\* the call just made was one of the five facade operations
FacadeCalled ==
    call.op \in {"memo.create", "memo.demo", "voices.list", "voices.get", "health"}

\* the error object of the envelope the stub sends
Envelope == Get(server.json, "error", EmptyDict)

Is2xx(status) == 200 <= status /\ status < 300

RaisedAgentTalkError ==
    outcome.kind = "raise" /\ IsInstance(outcome.error, "AgentTalkError")

\* the details object d carries every field of the raw details dict
Carries(d, raw) ==
    Truthy(raw) => /\ d # NoneObj
                   /\ \A k \in DOMAIN raw : k \in DOMAIN d /\ d[k] = raw[k]

\* C1: for every taxonomy code, message, details and status passed in, the mapper
\* yields an error of the declared class, with that code and the declared status
C1_TaxonomyCodeMapsToVariant ==
    (MapperCalled /\ HasKeys(Envelope, {"code", "message", "details"})
                  /\ Envelope["code"] \in TaxonomyCodes)
    => /\ outcome.kind = "return"
       /\ outcome.value.code = Envelope["code"]
       /\ outcome.value.exc = Taxonomy(Envelope["code"]).class
       /\ outcome.value.status_code = Taxonomy(Envelope["code"]).status

\* C2: for every code outside the taxonomy the mapper yields a generic
\* AgentTalkError with the supplied code, message, HTTP status and raw details
C2_UnknownCodePreserved ==
    (MapperCalled /\ "code" \in DOMAIN Envelope /\ Envelope["code"] \notin TaxonomyCodes)
    => /\ outcome.kind = "return"
       /\ outcome.value.exc = "AgentTalkError"
       /\ outcome.value.code = Envelope["code"]
       /\ outcome.value.message = <<Get(Envelope, "message", "Unknown error")>>
       /\ outcome.value.status_code = server.status
       /\ Carries(outcome.value.details, Get(Envelope, "details", EmptyDict))

\* C3: the mapper is total: on every status and every decoded envelope it returns
\* an error object and raises nothing
C3_MapperTotal == MapperCalled => outcome.kind = "return"

\* C4: with no API key configured, memo.create fails with MISSING_API_KEY and the
\* transport issues no request
C4_MissingKeyBeforeRequest ==
    (call.op = "memo.create" /\ api_key = None)
    => /\ RaisedAgentTalkError
       /\ outcome.error.code = "MISSING_API_KEY"
       /\ requests = <<>>

\* the response is a 2xx JSON object
SuccessBody == server.net = "ok" /\ Is2xx(server.status) /\ server.text = "dict"

MemoComplete(j) ==
    /\ HasKeys(j, {"id", "text", "voice", "audio", "createdAt"})
    /\ HasKeys(j["voice"], {"id", "name", "gender", "description"})
    /\ HasKeys(j["audio"], {"url", "duration", "format"})

HealthComplete(j) ==
    HasKeys(j, {"status", "service", "version", "timestamp", "ttsMode", "database"})

ListingComplete(j) ==
    /\ HasKeys(j, {"voices"})
    /\ \A i \in 1..Len(j["voices"]) :
          HasKeys(j["voices"][i], {"id", "name", "gender", "description"})

\* a 2xx response arrived whose body the facade operation cannot map
UnmappableSuccess ==
    /\ server.net = "ok" /\ Is2xx(server.status)
    /\ \/ server.text \in {"malformed", "empty"}
       \/ /\ server.text = "dict"
          /\ \/ call.op \in {"memo.create", "memo.demo"} /\ ~MemoComplete(server.json)
             \/ call.op \in {"voices.list", "voices.get"} /\ ~ListingComplete(server.json)
             \/ call.op = "health" /\ ~HealthComplete(server.json)

\* C5: a facade operation that fails on a 2xx response (body not valid JSON, or a
\* required field missing, the empty body included) raises a generic internal
\* AgentTalkError, never another exception or a defaulted value
C5_FailuresAreAgentTalkErrors ==
    (FacadeCalled /\ UnmappableSuccess)
    => (RaisedAgentTalkError /\ outcome.error.code = "INTERNAL_ERROR")

\* the AgentTalkError the last call raised or returned, if any
ProducedErrors ==
    IF RaisedAgentTalkError THEN {outcome.error}
    ELSE IF call.op = "create_error_from_response" /\ outcome.kind = "return"
    THEN {outcome.value}
    ELSE {}

\* the transport built the error itself from a non-2xx response with no JSON body
SyntheticInternal(e) ==
    /\ FacadeCalled /\ server.net = "ok" /\ ~Is2xx(server.status)
    /\ server.text \in {"empty", "malformed"}
    /\ e.code = "INTERNAL_ERROR" /\ e.status_code = server.status

\* the transport built the error itself from a timeout
SyntheticTimeout(e) ==
    /\ FacadeCalled /\ server.net = "read_timeout"
    /\ e.code = "SERVICE_UNAVAILABLE" /\ e.status_code = 408

\* C6 as stated: every error with a taxonomy code has the taxonomy's status
C6_StatusMatchesTaxonomy ==
    \A e \in ProducedErrors :
        e.code \in TaxonomyCodes => e.status_code = Taxonomy(e.code).status

\* C6 amended: every error with a taxonomy code has the taxonomy's status, except
\* the two errors the transport builds itself (INTERNAL_ERROR with the HTTP status
\* for a non-2xx response that has no JSON body, SERVICE_UNAVAILABLE with 408 for a
\* timeout); an error with an unrecognized code has the HTTP status verbatim
C6_StatusMatchesTaxonomyOrSynthetic ==
    \A e \in ProducedErrors :
        /\ e.code \in TaxonomyCodes
           => \/ e.status_code = Taxonomy(e.code).status
              \/ SyntheticInternal(e)
              \/ SyntheticTimeout(e)
        /\ e.code \notin TaxonomyCodes => e.status_code = server.status

\* a facade call got a recognized server error whose status is not the HTTP status
C6_Witness ==
    /\ call.op = "voices.list" /\ server.status = 500
    /\ RaisedAgentTalkError
    /\ outcome.error.code = "NOT_FOUND" /\ outcome.error.status_code = 404

\* C7: every network failure or timeout of a request surfaces as an
\* AgentTalkError with code SERVICE_UNAVAILABLE
C7_NetworkFailuresUnavailable ==
    (FacadeCalled /\ server.net # "ok")
    => (RaisedAgentTalkError /\ outcome.error.code = "SERVICE_UNAVAILABLE")

\* C8: on a non-2xx response the transport raises an AgentTalkError: the mapper's
\* result when the body is JSON, else INTERNAL_ERROR with the HTTP status and a
\* message carrying the status and reason phrase
C8_Non2xxRaisesMappedError ==
    (FacadeCalled /\ server.net = "ok" /\ ~Is2xx(server.status))
    => /\ RaisedAgentTalkError
       /\ server.text \in {"dict", "list"}
          => LET made == create_error_from_response(server.status,
                                                    json_loads(server).value)
             IN  made.kind = "return" /\ outcome.error = made.value
       /\ server.text \in {"empty", "malformed"}
          => /\ outcome.error.code = "INTERNAL_ERROR"
             /\ outcome.error.status_code = server.status
             /\ outcome.error.message = <<"HTTP ", Str(server.status), ": ", server.reason>>

\* C9: a successful body with all required fields is copied field by field, with
\* the renames createdAt -> created_at (Memo) and ttsMode -> tts_mode (health)
C9_ResponseFieldsCopied ==
    LET j == server.json
        v == outcome.value
    IN  /\ (call.op \in {"memo.create", "memo.demo"} /\ SuccessBody /\ MemoComplete(j))
           => /\ outcome.kind = "return"
              /\ DOMAIN v = {"id", "text", "voice", "audio", "created_at"}
              /\ v.id = j["id"] /\ v.text = j["text"]
              /\ DOMAIN v.voice = {"id", "name", "gender", "description"}
              /\ \A k \in DOMAIN v.voice : v.voice[k] = j["voice"][k]
              /\ DOMAIN v.audio = {"url", "duration", "format"}
              /\ \A k \in DOMAIN v.audio : v.audio[k] = j["audio"][k]
              /\ v.created_at = j["createdAt"]
        /\ (call.op = "health" /\ SuccessBody /\ HealthComplete(j))
           => /\ outcome.kind = "return"
              /\ DOMAIN v = {"status", "service", "version", "timestamp", "tts_mode",
                             "database"}
              /\ \A k \in {"status", "service", "version", "timestamp", "database"} :
                    v[k] = j[k]
              /\ v.tts_mode = j["ttsMode"]

\* memo.create mapped the spec's example body
C9_Witness ==
    /\ call.op = "memo.create" /\ SuccessBody /\ server.json = FullMemo
    /\ outcome.kind = "return"
    /\ outcome.value.created_at = "2024-01-01T00:00:00Z"
    /\ outcome.value.audio.duration = "1.5"

\* the listing the server sends is a well-formed voice list
ListingOk == SuccessBody /\ ListingComplete(server.json)

\* C10: voices.get(id) issues exactly one listing request and returns the first
\* listed voice with that id, or None (no error) when no listed voice has it
C10_GetFirstMatchOrNone ==
    (call.op = "voices.get" /\ ListingOk)
    => LET vs == server.json["voices"]
           hits == { i \in 1..Len(vs) : vs[i]["id"] = call.voice }
       IN  /\ Len(requests) = 1
           /\ requests[1].method = "GET"
           /\ requests[1].url = <<DEFAULT_BASE_URL, "/api/v1/voices">>
           /\ outcome.kind = "return"
           /\ IF hits = {} THEN outcome.value = NoneObj
              ELSE LET first == CHOOSE i \in hits : \A h \in hits : i <= h
                   IN  outcome.value = Voice(vs[first])

\* two listed voices share the id asked for and the first one is returned
C10_Witness ==
    /\ call.op = "voices.get" /\ ListingOk /\ call.voice = "rachel"
    /\ Len(server.json["voices"]) = 2
    /\ server.json["voices"][1] = FullVoice("rachel", "First")
    /\ server.json["voices"][2] = FullVoice("rachel", "Second")
    /\ outcome.kind = "return" /\ outcome.value.name = "First"

\* the details dict of the envelope the stub sends
EnvelopeDetails == Get(Envelope, "details", EmptyDict)

\* the parameters that the taxonomy table declares for a code, among the fields
\* of ErrorDetails
DeclaredParams(code) ==
    CASE code = "INVALID_INPUT" -> {"field", "reason", "provided_type"}
      [] code = "MISSING_FIELD" -> {"field"}
      [] code = "INVALID_VOICE" -> {"requested_voice", "available_voices"}
      [] code = "INSUFFICIENT_TIER" -> {"required_tier", "current_tier"}
      [] code = "MEMO_NOT_FOUND" -> {"memo_id"}
      [] code \in {"DAILY_LIMIT_EXCEEDED", "MONTHLY_LIMIT_EXCEEDED"} ->
            {"limit", "used", "reset_at"}
      [] code = "STORAGE_ERROR" -> {"operation"}
      [] OTHER -> {}

\* C14: for a recognized code every declared parameter is taken from the details
\* field of the same name when that field is present (MEMO_NOT_FOUND carries the
\* supplied memo_id)
C14_ParamsFromSameNamedField ==
    (MapperCalled /\ "code" \in DOMAIN Envelope /\ Envelope["code"] \in TaxonomyCodes
                  /\ AcceptsKeywords(EnvelopeDetails))
    => /\ outcome.kind = "return"
       /\ \A p \in DeclaredParams(Envelope["code"]) :
             p \in DOMAIN EnvelopeDetails
             => /\ outcome.value.details # NoneObj
                /\ outcome.value.details[p] = EnvelopeDetails[p]

\* C15: an error raised for a non-2xx response with a JSON error envelope carries
\* the envelope's code and every details field of the envelope, recognized code
\* or not
C15_ServerErrorCarriesCodeAndDetails ==
    (FacadeCalled /\ server.net = "ok" /\ ~Is2xx(server.status) /\ server.text = "dict"
                  /\ HasKeys(server.json, {"error"}) /\ "code" \in DOMAIN Envelope
                  /\ AcceptsKeywords(EnvelopeDetails))
    => /\ RaisedAgentTalkError
       /\ outcome.error.code = Envelope["code"]
       /\ Carries(outcome.error.details, EnvelopeDetails)

\* C16: a request carries Authorization: Bearer <api_key> exactly when the
\* operation is memo.create and an API key is configured
C16_AuthorizationIffRequired ==
    FacadeCalled
    => \A i \in 1..Len(requests) :
          /\ "Authorization" \in DOMAIN requests[i].headers
             <=> (call.op = "memo.create" /\ api_key # None)
          /\ "Authorization" \in DOMAIN requests[i].headers
             => requests[i].headers["Authorization"] = <<"Bearer ", api_key>>

\* memo.demo was called with a key configured and sent no Authorization header
C16_Witness ==
    /\ call.op = "memo.demo" /\ api_key = "at_live_test123"
    /\ Len(requests) = 1
    /\ "Authorization" \notin DOMAIN requests[1].headers

\* C17: a refused connection or a DNS failure raises SERVICE_UNAVAILABLE with 503;
\* a timeout, while connecting or while reading, raises SERVICE_UNAVAILABLE with
\* 408 and the timeout message
C17_TimeoutIs408 ==
    FacadeCalled
    => /\ server.net \in {"refused", "dns"}
          => /\ RaisedAgentTalkError
             /\ outcome.error.code = "SERVICE_UNAVAILABLE"
             /\ outcome.error.status_code = 503
       /\ server.net \in {"connect_timeout", "read_timeout"}
          => /\ RaisedAgentTalkError
             /\ outcome.error.code = "SERVICE_UNAVAILABLE"
             /\ outcome.error.status_code = 408
             /\ outcome.error.message = <<"Request timeout">>

\* the timeout applied to requests, in milliseconds
EffectiveTimeoutMs == client_timeout[1] * 1000

\* C18: a configured timeout t > 0 ms gives an effective timeout that is positive
\* and not longer than t; no timeout, or 0, gives the default 30 000 ms
C18_TimeoutHonoured ==
    client_timeout # NoInt
    => IF TruthyInt(timeout_arg)
       THEN 0 < EffectiveTimeoutMs /\ EffectiveTimeoutMs <= timeout_arg[1]
       ELSE EffectiveTimeoutMs = DefaultTimeoutMs

\* every finished call gave what the same call gives alone against the behaviour
\* the server showed on its connection
OutcomeAsAlone ==
    \A t \in Threads :
        pc[t] = "done" => result[t] = Alone(invoked[t], client.api_key, served[t])

\* C13: concurrent calls on one client do not interfere: no step of a call writes
\* the client's configuration, and under every interleaving each call's outcome is
\* the outcome of the same call run alone against the same server responses
C13_ConcurrentCallsIndependent == [](OutcomeAsAlone) /\ [][client' = client]_vars

\* two calls overlapped, met different server behaviours and finished differently
C13_Witness ==
    /\ overlapped
    /\ \A t \in Threads : pc[t] = "done"
    /\ served[1] # served[2]
    /\ result[1].outcome.kind = "return"
    /\ result[2].outcome.kind = "raise"

\* the tasks that are in the in-progress folder and have a spawned agent
RunningTasks == { f \in Files("in-progress") : f \in agents }

\* C11: after any sequence of runs and of agents finishing, at most MAX_PARALLEL
\* tasks are in the in-progress folder with a spawned agent
C11_AtMostMaxParallel ==
    folder # <<>> => Cardinality(RunningTasks) <= MAX_PARALLEL

\* every non-empty id of the depends_on list of a task file is completed
DependenciesCompleted(f) ==
    LET depends_on == read_task(f).depends_on
    IN  \A i \in 1..Len(depends_on) : depends_on[i] = "" \/ depends_on[i] \in CompletedTasks

\* C12: a run moves a task to in-progress, and spawns its agent, only if the task
\* was in todos and all its dependencies were completed when the run began
C12_DependenciesRespected ==
    [][\A f \in TaskNames :
          /\ f \in DOMAIN folder
          /\ \/ (folder'[f] # folder[f] /\ folder'[f] = "in-progress")
             \/ f \in agents' \ agents
          => folder[f] = "todos" /\ DependenciesCompleted(f)]_vars

\* the task with two dependencies runs while a task with an uncompleted one waits
C12_Witness ==
    /\ folder # <<>>
    /\ folder["task-102-ui"] = "in-progress"
    /\ "task-102-ui" \in agents
    /\ folder["task-103-agent-talk-docs"] = "todos"
    /\ ~DependenciesCompleted("task-103-agent-talk-docs")

====
